---------------------------- MODULE Spec2Model ----------------------------
(***************************************************************************)
(* A model of the memory subsystem of the AI Dungeon Master                *)
(* (src/memory.py) and of the callers that drive it (src/app.py).          *)
(*                                                                         *)
(* Texts are sequences of one-character strings, so that the Python        *)
(* string operations the code relies on (lower, strip, the substring test  *)
(* `w in t`, re.split, join) are computed character by character.          *)
(* JSON values that the code may load from disk are tagged records         *)
(* [k, n, s]: k is the Python type, n the number, s the characters.        *)
(***************************************************************************)
EXTENDS Integers, Sequences, FiniteSets, TLC

(***************************************************************************)
(* Python str primitives                                                   *)
(***************************************************************************)

UpperChars ==
    << "A", "B", "C", "D", "E", "F", "G", "H", "I", "J", "K", "L", "M",
       "N", "O", "P", "Q", "R", "S", "T", "U", "V", "W", "X", "Y", "Z" >>

LowerChars ==
    << "a", "b", "c", "d", "e", "f", "g", "h", "i", "j", "k", "l", "m",
       "n", "o", "p", "q", "r", "s", "t", "u", "v", "w", "x", "y", "z" >>

\* str.lower() on one character.
LowerChar(c) ==
    IF \E i \in 1..Len(UpperChars) : UpperChars[i] = c
    THEN LowerChars[CHOOSE i \in 1..Len(UpperChars) : UpperChars[i] = c]
    ELSE c

\* str.lower()
Lower(t) == [i \in 1..Len(t) |-> LowerChar(t[i])]

\* The characters str.strip() removes.
Whitespace == { " ", "\n", "\t", "\r" }

RECURSIVE LStrip(_)
LStrip(t) ==
    IF t # << >> /\ Head(t) \in Whitespace THEN LStrip(Tail(t)) ELSE t

RECURSIVE RStrip(_)
RStrip(t) ==
    IF t # << >> /\ t[Len(t)] \in Whitespace
    THEN RStrip(SubSeq(t, 1, Len(t) - 1))
    ELSE t

\* str.strip()
Strip(t) == RStrip(LStrip(t))

\* The Python test `w in t` on strings: w is a contiguous part of t.
Contains(t, w) ==
    \E i \in 0..(Len(t) - Len(w)) : SubSeq(t, i + 1, i + Len(w)) = w

\* str.startswith
StartsWith(t, w) == Len(w) <= Len(t) /\ SubSeq(t, 1, Len(w)) = w

\* re.split(r"[.\n]", t) and str.split(sep, ...): the pieces of t between
\* the characters of seps, empty pieces included.
RECURSIVE SplitOn(_, _, _)
SplitOn(t, seps, cur) ==
    IF t = << >> THEN << cur >>
    ELSE IF Head(t) \in seps
         THEN << cur >> \o SplitOn(Tail(t), seps, << >>)
         ELSE SplitOn(Tail(t), seps, Append(cur, Head(t)))

Split(t, seps) == SplitOn(t, seps, << >>)

\* sep.join(parts)
RECURSIVE Join(_, _)
Join(sep, parts) ==
    IF parts = << >> THEN << >>
    ELSE IF Len(parts) = 1 THEN parts[1]
    ELSE parts[1] \o sep \o Join(sep, Tail(parts))

\* reversed(xs)
Reverse(xs) == [i \in 1..Len(xs) |-> xs[Len(xs) + 1 - i]]

\* The Python slice xs[a:] for any integer a.
SliceFrom(xs, a) ==
    LET n == Len(xs)
        lo == IF a < 0 THEN (IF n + a < 0 THEN 0 ELSE n + a)
              ELSE (IF a > n THEN n ELSE a)
    IN SubSeq(xs, lo + 1, n)

\* The Python slice xs[:b] for b >= 0.
SliceTo(xs, b) == SubSeq(xs, 1, IF b > Len(xs) THEN Len(xs) ELSE b)

Min(a, b) == IF a <= b THEN a ELSE b

(***************************************************************************)
(* Keyword tables                                                          *)
(***************************************************************************)

\* MemoryManager.KEY_TAGS, in the order of the dictionary.
KEY_TAGS ==
    << \* quest
       << <<"q", "u", "e", "s", "t">>,
          <<"m", "i", "s", "s", "i", "o", "n">>,
          <<"t", "a", "s", "k">>,
          <<"c", "o", "n", "t", "r", "a", "c", "t">> >>,
       \* item
       << <<"s", "w", "o", "r", "d">>,
          <<"k", "e", "y">>,
          <<"m", "a", "p">>,
          <<"f", "e", "a", "t", "h", "e", "r">>,
          <<"r", "i", "n", "g">>,
          <<"a", "m", "u", "l", "e", "t">>,
          <<"p", "o", "t", "i", "o", "n">>,
          <<"l", "a", "n", "t", "e", "r", "n">>,
          <<"g", "e", "m">>,
          <<"s", "c", "r", "o", "l", "l">> >>,
       \* ally
       << <<"j", "o", "i", "n", "s", " ", "y", "o", "u">>,
          <<"a", "g", "r", "e", "e", "s", " ", "t", "o", " ", "h", "e", "l", "p">>,
          <<"c", "o", "m", "p", "a", "n", "i", "o", "n">>,
          <<"p", "a", "r", "t", "y", " ", "m", "e", "m", "b", "e", "r">>,
          <<"a", "l", "l", "y">> >>,
       \* lore
       << <<"p", "r", "o", "p", "h", "e", "c", "y">>,
          <<"l", "e", "g", "e", "n", "d">>,
          <<"a", "n", "c", "i", "e", "n", "t">>,
          <<"r", "i", "t", "u", "a", "l">>,
          <<"t", "e", "m", "p", "l", "e">>,
          <<"k", "i", "n", "g", "d", "o", "m">>,
          <<"o", "r", "d", "e", "r">> >> >>

\* The literal "remember:".
RememberLit == <<"r", "e", "m", "e", "m", "b", "e", "r", ":">>

\* The word list of extract_key_events.
ActionKeywords ==
    << <<"f", "i", "n", "d">>,
       <<"g", "i", "v", "e">>,
       <<"t", "a", "k", "e">>,
       <<"e", "n", "t", "e", "r">>,
       <<"w", "a", "r", "n">>,
       <<"a", "g", "r", "e", "e">>,
       <<"a", "t", "t", "a", "c", "k">>,
       <<"d", "i", "s", "c", "o", "v", "e", "r">>,
       <<"f", "e", "a", "t", "h", "e", "r">>,
       <<"l", "a", "n", "t", "e", "r", "n">>,
       <<"k", "e", "y">>,
       <<"m", "a", "p">> >>

\* any(w in t for w in words)
AnyIn(words, t) == \E i \in 1..Len(words) : Contains(t, words[i])

(***************************************************************************)
(* MemoryManager._priority                                                 *)
(***************************************************************************)

\* The loop over KEY_TAGS.items(): the score after the first n categories.
RECURSIVE TagScore(_, _)
TagScore(t, n) ==
    IF n = 0 THEN 1
    ELSE TagScore(t, n - 1) + (IF AnyIn(KEY_TAGS[n], t) THEN 2 ELSE 0)

\* A variant that returns the score without the cap.
_priority_Uncapped(text) ==
    LET t == Lower(text)
    IN TagScore(t, Len(KEY_TAGS))
       + (IF Contains(t, RememberLit) THEN 3 ELSE 0)

_priority(text) ==
    LET t == Lower(text)
        score == TagScore(t, Len(KEY_TAGS))
                 + (IF Contains(t, RememberLit) THEN 3 ELSE 0)
    IN Min(score, 5)

(***************************************************************************)
(* JSON values, as json.loads hands them to the code                       *)
(***************************************************************************)

JMissing  == [k |-> "missing", n |-> 0, s |-> << >>]   \* the key is absent
JNone     == [k |-> "none",    n |-> 0, s |-> << >>]   \* null
JNaN      == [k |-> "nan",     n |-> 0, s |-> << >>]   \* NaN
JList     == [k |-> "list",    n |-> 0, s |-> << >>]   \* []
JInt(i)   == [k |-> "int",     n |-> i, s |-> << >>]
JBool(b)  == [k |-> "bool",    n |-> IF b THEN 1 ELSE 0, s |-> << >>]
JFloat(d) == [k |-> "float",   n |-> d, s |-> << >>]   \* d tenths: 27 is 2.7
JStr(t)   == [k |-> "str",     n |-> 0, s |-> t]

\* isinstance(v, int): bool is a subclass of int in Python.
IsInstanceInt(v) == v.k \in { "int", "bool" }

\* isinstance(v, str)
IsInstanceStr(v) == v.k = "str"

\* r.get(key): an absent key reads as None.
Get(v) == IF v.k = "missing" THEN JNone ELSE v

\* r.get(key, default)
GetOr(v, default) == IF v.k = "missing" THEN default ELSE v

Digits == << "0", "1", "2", "3", "4", "5", "6", "7", "8", "9" >>

IsDigit(c) == \E i \in 1..Len(Digits) : Digits[i] = c

DigitValue(c) == (CHOOSE i \in 1..Len(Digits) : Digits[i] = c) - 1

\* The value of a string of decimal digits.
RECURSIVE DigitsValue(_)
DigitsValue(t) ==
    IF t = << >> THEN 0
    ELSE 10 * DigitsValue(SubSeq(t, 1, Len(t) - 1)) + DigitValue(t[Len(t)])

\* int(<str>): surrounding whitespace, an optional sign, then digits only.
\* [ok |-> FALSE] is the ValueError.
IntOfStr(t) ==
    LET u      == Strip(t)
        signed == u # << >> /\ Head(u) \in { "+", "-" }
        body   == IF signed THEN Tail(u) ELSE u
    IN IF body # << >> /\ \A i \in 1..Len(body) : IsDigit(body[i])
       THEN [ok |-> TRUE,
             n  |-> IF signed /\ Head(u) = "-"
                    THEN 0 - DigitsValue(body) ELSE DigitsValue(body)]
       ELSE [ok |-> FALSE, n |-> 0]

\* Truncation toward zero of d tenths: int(2.7) = 2, int(-2.7) = -2.
TruncTenths(d) == IF d >= 0 THEN d \div 10 ELSE 0 - ((0 - d) \div 10)

\* int(v); [ok |-> FALSE] is the exception (TypeError or ValueError).
PyInt(v) ==
    CASE v.k \in { "int", "bool" } -> [ok |-> TRUE, n |-> v.n]
      [] v.k = "float"             -> [ok |-> TRUE, n |-> TruncTenths(v.n)]
      [] v.k = "str"               -> IntOfStr(v.s)
      [] OTHER                     -> [ok |-> FALSE, n |-> 0]

\* str(n) for a natural number.
RECURSIVE NatToStr(_)
NatToStr(n) ==
    IF n < 10 THEN << Digits[n + 1] >>
    ELSE NatToStr(n \div 10) \o << Digits[(n % 10) + 1] >>

IntToStr(i) == IF i < 0 THEN << "-" >> \o NatToStr(0 - i) ELSE NatToStr(i)

\* str(v) of a value that is neither None nor a string.
PyStr(v) ==
    CASE v.k = "int"   -> IntToStr(v.n)
      [] v.k = "bool"  -> IF v.n = 1 THEN <<"T", "r", "u", "e">>
                                     ELSE <<"F", "a", "l", "s", "e">>
      [] v.k = "float" -> (IF v.n < 0 THEN << "-" >> ELSE << >>)
                          \o NatToStr((IF v.n < 0 THEN 0 - v.n ELSE v.n) \div 10)
                          \o << "." >>
                          \o NatToStr((IF v.n < 0 THEN 0 - v.n ELSE v.n) % 10)
      [] v.k = "nan"   -> <<"n", "a", "n">>
      [] v.k = "list"  -> <<"[", "]">>
      [] OTHER         -> v.s

(***************************************************************************)
(* _normalize_records                                                      *)
(***************************************************************************)

\* A variant that parses strings as float() does and keeps the float.
CoerceInt_KeepFloat(v, default) ==
    LET got == PyInt(GetOr(v, JInt(default)))
    IN IF ~got.ok THEN JInt(default)
       ELSE IF v.k = "str" THEN JFloat(10 * got.n)
       ELSE JInt(got.n)

\* The try/except around int(r.get(key, default)).
CoerceInt(v, default) ==
    LET got == PyInt(GetOr(v, JInt(default)))
    IN IF got.ok THEN JInt(got.n) ELSE JInt(default)

\* The body of the loop, for one record.
NormalizeRecord(r) ==
    LET n == Get(r.note)
    IN [ r EXCEPT
           !.priority = IF ~IsInstanceInt(Get(r.priority))
                        THEN CoerceInt(r.priority, 1) ELSE @,
           !.turn     = IF ~IsInstanceInt(Get(r.turn))
                        THEN CoerceInt(r.turn, 0) ELSE @,
           !.note     = IF n.k # "none" /\ ~IsInstanceStr(n)
                        THEN JStr(PyStr(n)) ELSE @ ]

\* Whether the loop body sets `changed` for this record.
RecordChanged(r) ==
    \/ ~IsInstanceInt(Get(r.priority))
    \/ ~IsInstanceInt(Get(r.turn))
    \/ (Get(r.note).k # "none" /\ ~IsInstanceStr(Get(r.note)))

\* The records after the loop, and whether any was changed (and so saved).
_normalize_records(recs) ==
    [recs    |-> [i \in 1..Len(recs) |-> NormalizeRecord(recs[i])],
     changed |-> \E i \in 1..Len(recs) : RecordChanged(recs[i])]

(***************************************************************************)
(* State                                                                   *)
(***************************************************************************)

VARIABLES
    ltm_file,          \* data/long_term_memory.json: [st, data]
    hints_file,        \* data/consistency_hints.json: [st, data]
    rag_ok,            \* _USE_RAG_OK: the embedding backend imported
    alive,             \* a MemoryManager has been constructed
    short_window,      \* self.short_window
    use_semantic_rag,  \* self.use_semantic_rag
    turns,             \* self.turns: sequence of [user, dm]
    long_memory,       \* self.long_memory: sequence of note records
    hints,             \* self.hints: sequence of texts
    corpus,            \* self.corpus, parallel to the vectors of self.index
    call,              \* the last completed call: its name, arguments, the
                       \* value it returned and the state it started from
    session,           \* st.session_state of app.py: turn, chat, and the
                       \* handler that ran last
    engine             \* the frame of a DMEngine.chat call in progress

vars == << ltm_file, hints_file, rag_ok, alive, short_window,
           use_semantic_rag, turns, long_memory, hints, corpus, call,
           session, engine >>

\* A file that does not exist, and one that holds JSON text for `obj`.
\* json.dumps followed by json.loads gives back equal strings, integers,
\* lists and string-keyed objects, which is all the code ever saves.
AbsentFile == [st |-> "absent", data |-> << >>]
CorruptFile == [st |-> "corrupt", data |-> << >>]

\* A variant that leaves an empty list in the file.
_save_json_Empty(obj) == [st |-> "ok", data |-> << >>]

_save_json(obj) == [st |-> "ok", data |-> obj]

_load_json(file, default) == IF file.st = "ok" THEN file.data ELSE default

\* The record of a call. text and n are its arguments (focus the list
\* argument of recall_relevant), ret the string and out the integer it
\* returned, long_memory and hints the state it started from (for
\* __init__: the records it loaded).
Call(op, text, n, ret) ==
    [op |-> op, text |-> text, n |-> n, ret |-> ret, out |-> 0,
     focus |-> << >>, long_memory |-> long_memory, hints |-> hints]

NoCall ==
    [op |-> "none", text |-> << >>, n |-> 0, ret |-> << >>, out |-> 0,
     focus |-> << >>, long_memory |-> << >>, hints |-> << >>]

\* Before the script has run: no session state.
NoSession == [turn |-> 0, chat |-> << >>, last |-> "none", max_notes |-> 0]

\* No chat call in progress. Of a call: pc is where it stands, attempt the
\* loop variable, sent the requests posted, log the responses received,
\* slept the sleeps taken (in tenths of a second), error what it raised.
NoFrame ==
    [pc |-> "idle", attempt |-> 0, sent |-> 0, log |-> << >>,
     slept |-> << >>, error |-> "none"]

\* (rec.get("note") or ""): None, a missing key and "" all read as "".
NoteOrEmpty(rec) == IF rec.note.k = "str" THEN rec.note.s ELSE << >>

(***************************************************************************)
(* Semantic index                                                          *)
(***************************************************************************)

\* A variant that keeps the latest text only.
_rag_add_text_Replace(cps, rag, text) ==
    IF text = << >> \/ ~rag THEN cps ELSE << text >>

\* _rag_add_text: the corpus after adding `text`. The embedder and the
\* index exist exactly when use_semantic_rag holds.
_rag_add_text(cps, rag, text) ==
    IF text = << >> \/ ~rag THEN cps ELSE Append(cps, text)

\* A sequence of texts added one after the other.
RECURSIVE RagAddAll(_, _, _)
RagAddAll(cps, rag, texts) ==
    IF texts = << >> THEN cps
    ELSE RagAddAll(_rag_add_text(cps, rag, Head(texts)), rag, Tail(texts))

\* _init_rag_index: an empty corpus seeded with rec.get("note", "") of
\* every record.
_init_rag_index(recs) ==
    RagAddAll(<< >>, TRUE, [i \in 1..Len(recs) |-> NoteOrEmpty(recs[i])])

(***************************************************************************)
(* MemoryManager.__init__                                                  *)
(***************************************************************************)

\* A variant that takes the backend for granted.
SemanticEnabled_Unchecked(use_rag, ok) == use_rag

\* self.use_semantic_rag = use_semantic_rag and _USE_RAG_OK
SemanticEnabled(use_rag, ok) == use_rag /\ ok

\* The body of __init__, on the state of the manager and its files.
Construct(window, use_rag) ==
    LET norm == _normalize_records(_load_json(ltm_file, << >>))
        rag  == SemanticEnabled(use_rag, rag_ok)
    IN /\ short_window' = window
       /\ use_semantic_rag' = rag
       /\ turns' = << >>
       /\ long_memory' = norm.recs
       /\ ltm_file' = IF norm.changed THEN _save_json(norm.recs) ELSE ltm_file
       /\ hints' = _load_json(hints_file, << >>)
       /\ corpus' = IF rag THEN _init_rag_index(norm.recs) ELSE << >>
       /\ alive' = TRUE
       /\ call' = [ NoCall EXCEPT !.op = "__init__", !.n = window,
                                  !.long_memory = _load_json(ltm_file, << >>) ]
       /\ UNCHANGED << hints_file, rag_ok >>

__init__(window, use_rag) ==
    /\ Construct(window, use_rag)
    /\ UNCHANGED << session, engine >>

(***************************************************************************)
(* Short-term window                                                       *)
(***************************************************************************)

PlayerLit == <<"P", "l", "a", "y", "e", "r", ":", " ">>
DMLit     == <<"D", "M", ":", " ">>
NL        == << "\n" >>

\* The two lines of one turn.
TurnLines(t) == << PlayerLit \o t.user, DMLit \o t.dm >>

\* The lines of a sequence of turns, in order.
RECURSIVE ContextLines(_)
ContextLines(ts) ==
    IF ts = << >> THEN << >>
    ELSE TurnLines(Head(ts)) \o ContextLines(Tail(ts))

\* tail = self.turns[-self.short_window:]
WindowTail(ts, window) == SliceFrom(ts, 0 - window)

\* The string get_short_context returns.
ShortContext(ts, window) == Join(NL, ContextLines(WindowTail(ts, window)))

get_short_context ==
    /\ alive
    /\ call' = Call("get_short_context", << >>, 0,
                    ShortContext(turns, short_window))
    /\ UNCHANGED << ltm_file, hints_file, rag_ok, alive, short_window,
                    use_semantic_rag, turns, long_memory, hints, corpus >>
    /\ UNCHANGED << session, engine >>

add_turn(user, dm) ==
    /\ alive
    /\ turns' = Append(turns, [user |-> user, dm |-> dm])
    /\ call' = Call("add_turn", user, 0, << >>)
    /\ UNCHANGED << ltm_file, hints_file, rag_ok, alive, short_window,
                    use_semantic_rag, long_memory, hints, corpus >>
    /\ UNCHANGED << session, engine >>

(***************************************************************************)
(* Consistency hints                                                       *)
(***************************************************************************)

HintsHeader ==
    <<"C", "o", "n", "s", "i", "s", "t", "e", "n", "c", "y", " ",
      "h", "i", "n", "t", "s", ":", "\n">>

BulletLit == <<"-", " ">>

InSeq(x, xs) == \E i \in 1..Len(xs) : xs[i] = x

\* A variant that appends without looking for the hint in the queue.
HintsAfterAdd_NoCheck(hs, hint) ==
    IF hint # << >> THEN Append(hs, hint) ELSE hs

\* The queue after add_consistency_hint(hint).
HintsAfterAdd(hs, hint) ==
    IF hint # << >> /\ ~InSeq(hint, hs) THEN Append(hs, hint) ELSE hs

add_consistency_hint(hint) ==
    /\ alive
    /\ hints' = HintsAfterAdd(hints, hint)
    /\ hints_file' = IF hint # << >> /\ ~InSeq(hint, hints)
                     THEN _save_json(hints') ELSE hints_file
    /\ call' = Call("add_consistency_hint", hint, 0, << >>)
    /\ UNCHANGED << ltm_file, rag_ok, alive, short_window, use_semantic_rag,
                    turns, long_memory, corpus >>
    /\ UNCHANGED << session, engine >>

\* hints = self.hints[:2]
PoppedHints(hs) == SliceTo(hs, 2)

\* A variant that drops one hint where two were returned.
HintsAfterPop_DropOne(hs) == SliceFrom(hs, 1)

\* A variant that reads the two hints and leaves them queued.
HintsAfterPop_Peek(hs) == hs

\* self.hints = self.hints[2:]
HintsAfterPop(hs) == SliceFrom(hs, 2)

\* "Consistency hints:\n" + "\n".join(f"- {h}" for h in hints)
RenderHints(hs) ==
    HintsHeader \o Join(NL, [i \in 1..Len(hs) |-> BulletLit \o hs[i]])

pop_consistency_hints ==
    /\ alive
    /\ IF hints = << >>
       THEN /\ call' = Call("pop_consistency_hints", << >>, 0, << >>)
            /\ UNCHANGED << hints, hints_file >>
       ELSE /\ hints' = HintsAfterPop(hints)
            /\ hints_file' = _save_json(hints')
            /\ call' = Call("pop_consistency_hints", << >>, 0,
                            RenderHints(PoppedHints(hints)))
    /\ UNCHANGED << ltm_file, rag_ok, alive, short_window, use_semantic_rag,
                    turns, long_memory, corpus >>
    /\ UNCHANGED << session, engine >>

(***************************************************************************)
(* Long-term notes                                                         *)
(***************************************************************************)

\* A variant that files a pinned note as an ordinary note of turn 0.
PinRecord_Unpinned(note) ==
    [note |-> JStr(note), tags |-> << >>,
     priority |-> JInt(5), turn |-> JInt(0)]

\* rec = {"note": note, "tags": ["HIGH"], "priority": 5, "turn": -1}
PinRecord(note) ==
    [note |-> JStr(note), tags |-> << "HIGH" >>,
     priority |-> JInt(5), turn |-> JInt(-1)]

pin_note(note) ==
    /\ alive
    /\ long_memory' = Append(long_memory, PinRecord(note))
    /\ corpus' = _rag_add_text(corpus, use_semantic_rag, note)
    /\ ltm_file' = _save_json(long_memory')
    /\ call' = Call("pin_note", note, 0, << >>)
    /\ UNCHANGED << hints_file, rag_ok, alive, short_window,
                    use_semantic_rag, turns, hints >>
    /\ UNCHANGED << session, engine >>

\* A call of self._priority(text) on its own.
score_text(text) ==
    /\ alive
    /\ call' = [ Call("_priority", text, 0, << >>) EXCEPT
                   !.out = _priority(text) ]
    /\ UNCHANGED << ltm_file, hints_file, rag_ok, alive, short_window,
                    use_semantic_rag, turns, long_memory, hints, corpus >>
    /\ UNCHANGED << session, engine >>

\* lines = [s.strip() for s in re.split(r"[.\n]", dm_reply) if s.strip()]
RECURSIVE StrippedNonBlank(_)
StrippedNonBlank(pieces) ==
    IF pieces = << >> THEN << >>
    ELSE (IF Strip(Head(pieces)) # << >>
          THEN << Strip(Head(pieces)) >> ELSE << >>)
         \o StrippedNonBlank(Tail(pieces))

SentenceLines(dm_reply) == StrippedNonBlank(Split(dm_reply, { ".", "\n" }))

\* any(w in ln.lower() for w in [...])
HasActionKeyword(ln) == AnyIn(ActionKeywords, Lower(ln))

\* A variant of the loop without the break.
RECURSIVE KeptFrom_NoBreak(_, _, _)
KeptFrom_NoBreak(lines, i, kept) ==
    IF i > Len(lines) THEN kept
    ELSE KeptFrom_NoBreak(lines, i + 1,
                          IF HasActionKeyword(lines[i])
                          THEN Append(kept, lines[i]) ELSE kept)

\* The loop that fills `kept`, from line i on; it breaks at two.
RECURSIVE KeptFrom(_, _, _)
KeptFrom(lines, i, kept) ==
    IF i > Len(lines) THEN kept
    ELSE LET kept2 == IF HasActionKeyword(lines[i])
                      THEN Append(kept, lines[i]) ELSE kept
         IN IF Len(kept2) >= 2 THEN kept2
            ELSE KeptFrom(lines, i + 1, kept2)

\* (kept or lines[:1])
ChosenLines(dm_reply) ==
    LET lines == SentenceLines(dm_reply)
        kept  == KeptFrom(lines, 1, << >>)
    IN IF kept # << >> THEN kept ELSE SliceTo(lines, 1)

\* rec = {"note": ln, "tags": [], "priority": self._priority(ln), "turn": turn}
EventRecord(ln, turn) ==
    [note |-> JStr(ln), tags |-> << >>,
     priority |-> JInt(_priority(ln)), turn |-> JInt(turn)]

\* The records extract_key_events appends, in order.
EventRecords(dm_reply, turn) ==
    LET chosen == ChosenLines(dm_reply)
    IN [i \in 1..Len(chosen) |-> EventRecord(chosen[i], turn)]

extract_key_events(dm_reply, turn) ==
    /\ alive
    /\ long_memory' = long_memory \o EventRecords(dm_reply, turn)
    /\ corpus' = RagAddAll(corpus, use_semantic_rag, ChosenLines(dm_reply))
    /\ ltm_file' = _save_json(long_memory')
    /\ call' = Call("extract_key_events", dm_reply, turn, << >>)
    /\ UNCHANGED << hints_file, rag_ok, alive, short_window,
                    use_semantic_rag, turns, hints >>
    /\ UNCHANGED << session, engine >>

\* note = (rec.get("note") or "").strip().lower()
CompactKey(rec) == Lower(Strip(NoteOrEmpty(rec)))

\* The loop over reversed(self.long_memory), from position i of `rev` on.
RECURSIVE CompactFrom(_, _, _, _, _)
CompactFrom(rev, i, seen, compact, max_notes) ==
    IF i > Len(rev) THEN compact
    ELSE LET note     == CompactKey(rev[i])
             take     == note # << >> /\ note \notin seen
             compact2 == IF take THEN Append(compact, rev[i]) ELSE compact
             seen2    == IF take THEN seen \cup { note } ELSE seen
         IN IF Len(compact2) >= max_notes THEN compact2
            ELSE CompactFrom(rev, i + 1, seen2, compact2, max_notes)

\* A variant that stores the kept notes trimmed.
Compacted_Trimmed(recs, max_notes) ==
    IF recs = << >> THEN recs
    ELSE LET kept == Reverse(CompactFrom(Reverse(recs), 1, { }, << >>,
                                         max_notes))
         IN [i \in 1..Len(kept) |->
               [kept[i] EXCEPT !.note = JStr(Strip(NoteOrEmpty(kept[i])))]]

\* The store compact_long_memory(max_notes) leaves.
Compacted(recs, max_notes) ==
    IF recs = << >> THEN recs
    ELSE Reverse(CompactFrom(Reverse(recs), 1, { }, << >>, max_notes))

compact_long_memory(max_notes) ==
    /\ alive
    /\ long_memory' = Compacted(long_memory, max_notes)
    /\ ltm_file' = IF long_memory = << >> THEN ltm_file
                   ELSE _save_json(long_memory')
    /\ call' = Call("compact_long_memory", << >>, max_notes, << >>)
    /\ UNCHANGED << hints_file, rag_ok, alive, short_window,
                    use_semantic_rag, turns, hints, corpus >>
    /\ UNCHANGED << session, engine >>

(***************************************************************************)
(* Retrieval: recall_relevant and recap                                    *)
(***************************************************************************)

RelevantHeader ==
    <<"R", "e", "l", "e", "v", "a", "n", "t", " ",
      "n", "o", "t", "e", "s", ":">>

PoolSpan == 200     \* self.long_memory[-200:]

\* to_int(x, default): int(x), or the default when int raises.
to_int(v, default) == IF PyInt(v).ok THEN PyInt(v).n ELSE default

\* The pieces that are not empty.
RECURSIVE NonEmpty(_)
NonEmpty(pieces) ==
    IF pieces = << >> THEN << >>
    ELSE (IF Head(pieces) # << >> THEN << Head(pieces) >> ELSE << >>)
         \o NonEmpty(Tail(pieces))

\* str.split() without arguments: the runs of non-whitespace characters.
WhitespaceSplit(t) == NonEmpty(Split(t, Whitespace))

\* any(w and w in n for w in words)
AnyNonEmptyIn(words, n) ==
    \E i \in 1..Len(words) : words[i] # << >> /\ Contains(n, words[i])

\* A variant of the sort key without the turn.
score_NoTurn(rec, cue_l, focus) ==
    LET n == Lower(NoteOrEmpty(rec))
    IN << to_int(GetOr(rec.priority, JInt(1)), 1)
            + (IF AnyNonEmptyIn(focus, n) THEN 1 ELSE 0)
            + (IF AnyNonEmptyIn(WhitespaceSplit(cue_l), n) THEN 1 ELSE 0),
          0 >>

\* score(rec): the pair (s, turn) the records are sorted by.
score(rec, cue_l, focus) ==
    LET n == Lower(NoteOrEmpty(rec))
    IN << to_int(GetOr(rec.priority, JInt(1)), 1)
            + (IF AnyNonEmptyIn(focus, n) THEN 1 ELSE 0)
            + (IF AnyNonEmptyIn(WhitespaceSplit(cue_l), n) THEN 1 ELSE 0),
          to_int(GetOr(rec.turn, JInt(0)), 0) >>

\* The order of Python tuples of two integers.
TupleLess(a, b) == a[1] < b[1] \/ (a[1] = b[1] /\ a[2] < b[2])

\* sorted(..., reverse=True) is stable: a record goes in front of the first
\* one with a smaller key, behind every earlier record with an equal key.
RECURSIVE InsertRanked(_, _, _, _)
InsertRanked(ranked, rec, cue_l, focus) ==
    IF ranked = << >> THEN << rec >>
    ELSE IF TupleLess(score(Head(ranked), cue_l, focus),
                      score(rec, cue_l, focus))
         THEN << rec >> \o ranked
         ELSE << Head(ranked) >>
              \o InsertRanked(Tail(ranked), rec, cue_l, focus)

RECURSIVE SortedDesc(_, _, _, _)
SortedDesc(pool, ranked, cue_l, focus) ==
    IF pool = << >> THEN ranked
    ELSE SortedDesc(Tail(pool),
                    InsertRanked(ranked, Head(pool), cue_l, focus),
                    cue_l, focus)

\* pool = [r for r in self.long_memory[-200:] if (r.get("note") or "").strip()]
RECURSIVE NonBlankRecords(_)
NonBlankRecords(recs) ==
    IF recs = << >> THEN << >>
    ELSE (IF Strip(NoteOrEmpty(Head(recs))) # << >>
          THEN << Head(recs) >> ELSE << >>)
         \o NonBlankRecords(Tail(recs))

Pool(recs) == NonBlankRecords(SliceFrom(recs, 0 - PoolSpan))

\* ranked = sorted(pool, key=score, reverse=True)[:k], for k >= 0.
Ranked(recs, k, cue, npc_focus) ==
    LET cue_l == Lower(cue)
        focus == [i \in 1..Len(npc_focus) |-> Lower(npc_focus[i])]
    IN SliceTo(SortedDesc(Pool(recs), << >>, cue_l, focus), k)

\* header + "\n" + "\n".join(bullets), or "" without bullets.
RenderBullets(header, texts) ==
    IF texts = << >> THEN << >>
    ELSE header \o NL
         \o Join(NL, [i \in 1..Len(texts) |-> BulletLit \o texts[i]])

\* The lists of positions index.search may hand back for top_k = k on a
\* corpus of n texts: min(k, n) different positions, in the order of a
\* similarity the model does not compute.
SearchHits(n, k) ==
    { I \in [1..Min(k, n) -> 1..n] :
        \A a, b \in 1..Min(k, n) : I[a] = I[b] => a = b }

\* _rag_search: the corpus texts at the positions found.
_rag_search(cps, I) == [j \in 1..Len(I) |-> cps[I[j]]]

recall_relevant(k, cue, npc_focus) ==
    /\ alive
    /\ IF use_semantic_rag
       THEN \E I \in SearchHits(Len(corpus), k) :
               call' = [ Call("recall_relevant", cue, k,
                              RenderBullets(RelevantHeader,
                                            _rag_search(corpus, I)))
                         EXCEPT !.focus = npc_focus ]
       ELSE LET ranked == Ranked(long_memory, k, cue, npc_focus)
            IN call' = [ Call("recall_relevant", cue, k,
                              RenderBullets(RelevantHeader,
                                 [i \in 1..Len(ranked) |-> ranked[i].note.s]))
                         EXCEPT !.focus = npc_focus ]
    /\ UNCHANGED << ltm_file, hints_file, rag_ok, alive, short_window,
                    use_semantic_rag, turns, long_memory, hints, corpus >>
    /\ UNCHANGED << session, engine >>

RecapHeader ==
    <<"R", "e", "c", "e", "n", "t", " ", "w", "o", "r", "l", "d", " ",
      "n", "o", "t", "e", "s", ":">>

NoNotesLit ==
    <<"N", "o", " ", "l", "o", "n", "g", "-", "t", "e", "r", "m", " ",
      "n", "o", "t", "e", "s", " ", "y", "e", "t", ".">>

RecapSpan == 12     \* self.long_memory[-12:]

\* [r.get('note', '') for r in tail if r.get("note")]
RECURSIVE TruthyNotes(_)
TruthyNotes(recs) ==
    IF recs = << >> THEN << >>
    ELSE (IF NoteOrEmpty(Head(recs)) # << >>
          THEN << NoteOrEmpty(Head(recs)) >> ELSE << >>)
         \o TruthyNotes(Tail(recs))

\* The string recap() returns.
Recap(recs) ==
    LET tail  == SliceFrom(recs, 0 - RecapSpan)
        notes == TruthyNotes(tail)
    IN IF tail = << >> THEN NoNotesLit
       ELSE RecapHeader \o NL
            \o Join(NL, [i \in 1..Len(notes) |-> BulletLit \o notes[i]])

recap ==
    /\ alive
    /\ call' = Call("recap", << >>, 0, Recap(long_memory))
    /\ UNCHANGED << ltm_file, hints_file, rag_ok, alive, short_window,
                    use_semantic_rag, turns, long_memory, hints, corpus >>
    /\ UNCHANGED << session, engine >>

(***************************************************************************)
(* The remember: command of the turn loop (app.py)                         *)
(***************************************************************************)

LookAroundLit ==
    <<"L", "o", "o", "k", " ", "a", "r", "o", "u", "n", "d", " ",
      "q", "u", "i", "e", "t", "l", "y", ".">>

\* text = user_text.strip() or "Look around quietly."
InputText(user_text) ==
    IF Strip(user_text) # << >> THEN Strip(user_text) ELSE LookAroundLit

\* text.split(":", 1)[1]: what follows the first colon.
RECURSIVE AfterColon(_)
AfterColon(t) ==
    IF t = << >> THEN << >>
    ELSE IF Head(t) = ":" THEN Tail(t) ELSE AfterColon(Tail(t))

IsRememberCommand(user_text) ==
    StartsWith(Lower(InputText(user_text)), RememberLit)

\* note = text.split(":", 1)[1].strip()
RememberNote(user_text) == Strip(AfterColon(InputText(user_text)))

\* The branch `if text.lower().startswith("remember:")`: pins a non-empty
\* note, warns about an empty one, and stops the run either way.
remember_command(user_text) ==
    /\ alive
    /\ IsRememberCommand(user_text)
    /\ IF RememberNote(user_text) # << >>
       THEN /\ long_memory' = Append(long_memory,
                                     PinRecord(RememberNote(user_text)))
            /\ corpus' = _rag_add_text(corpus, use_semantic_rag,
                                       RememberNote(user_text))
            /\ ltm_file' = _save_json(long_memory')
       ELSE UNCHANGED << long_memory, corpus, ltm_file >>
    /\ call' = Call("remember_command", user_text, 0, << >>)
    /\ UNCHANGED << hints_file, rag_ok, alive, short_window,
                    use_semantic_rag, turns, hints >>
    /\ UNCHANGED << session, engine >>

(***************************************************************************)
(* The script of app.py: first run, reset, and the turn loop               *)
(***************************************************************************)

AppWindow == 4      \* MemoryManager(short_window=4, ...) in app.py

ResetLit  == <<"r", "e", "s", "e", "t">>
DiedLit   == <<" ", "d", "i", "e", "d">>
IsDeadLit == <<" ", "i", "s", " ", "d", "e", "a", "d">>

\* "Reminder: confirm death states; notes may mark this NPC as alive."
ReminderLit ==
    <<"R", "e", "m", "i", "n", "d", "e", "r", ":", " ",
      "c", "o", "n", "f", "i", "r", "m", " ", "d", "e", "a", "t", "h", " ",
      "s", "t", "a", "t", "e", "s", ";", " ", "n", "o", "t", "e", "s", " ",
      "m", "a", "y", " ", "m", "a", "r", "k", " ", "t", "h", "i", "s", " ",
      "N", "P", "C", " ", "a", "s", " ", "a", "l", "i", "v", "e", ".">>

\* The first run of the script in a process whose MAX_NOTES is max_notes:
\* "engine" is not in the session state, so the engine and the manager are
\* constructed and the session starts at turn 0 with an empty chat.
app_start(max_notes) ==
    /\ session.last = "none"
    /\ Construct(AppWindow, FALSE)
    /\ session' = [turn |-> 0, chat |-> << >>, last |-> "start",
                   max_notes |-> max_notes]
    /\ engine' = NoFrame

\* The player types reset: a new engine and a new manager, turn 0, an empty
\* chat, and the run stops.
reset_command(user_text) ==
    /\ session.last # "none"
    /\ Lower(InputText(user_text)) = ResetLit
    /\ Construct(AppWindow, FALSE)
    /\ session' = [session EXCEPT !.turn = 0, !.chat = << >>,
                                  !.last = "reset"]
    /\ engine' = NoFrame

\* The Reset World button: the construction branch runs again.
reset_world ==
    /\ session.last # "none"
    /\ Construct(AppWindow, FALSE)
    /\ session' = [session EXCEPT !.turn = 0, !.chat = << >>,
                                  !.last = "reset_world"]
    /\ engine' = NoFrame

\* " died" in dm_reply.lower() or " is dead" in dm_reply.lower()
MentionsDeath(dm_reply) ==
    \/ Contains(Lower(dm_reply), DiedLit)
    \/ Contains(Lower(dm_reply), IsDeadLit)

\* One turn of the loop, for an input that is neither reset nor remember:
\* and a reply dm_reply of engine.chat (or its error text). The hints are
\* drained into the prompt, the exchange goes to the chat and to the short
\* window, a death in the reply queues the reminder, the key events of the
\* reply are stored, and every 4th turn the store is compacted. The recall
\* of every 4th turn and the short context only feed the prompt.
turn_step(user_text, dm_reply) ==
    LET text     == InputText(user_text)
        turn     == session.turn + 1
        drained  == HintsAfterPop(hints)
        queued   == IF MentionsDeath(dm_reply)
                    THEN HintsAfterAdd(drained, ReminderLit) ELSE drained
        stored   == long_memory \o EventRecords(dm_reply, turn)
    IN /\ session.last # "none"
       /\ Lower(text) # ResetLit
       /\ ~StartsWith(Lower(text), RememberLit)
       /\ session' = [session EXCEPT
                        !.turn = turn,
                        !.chat = @ \o << << "user", text >>,
                                         << "assistant", dm_reply >> >>,
                        !.last = "turn"]
       /\ hints' = queued
       /\ hints_file' = IF queued # drained THEN _save_json(queued)
                        ELSE IF hints # << >> THEN _save_json(drained)
                        ELSE hints_file
       /\ turns' = Append(turns, [user |-> text, dm |-> dm_reply])
       /\ corpus' = RagAddAll(corpus, use_semantic_rag, ChosenLines(dm_reply))
       /\ long_memory' = IF turn % 4 = 0
                         THEN Compacted(stored, session.max_notes)
                         ELSE stored
       /\ ltm_file' = _save_json(long_memory')
       /\ call' = [ Call("turn", dm_reply, turn, << >>) EXCEPT
                      !.out = Len(stored) ]
       /\ UNCHANGED << rag_ok, alive, short_window, use_semantic_rag,
                       engine >>

(***************************************************************************)
(* DMEngine.chat (dm_engine.py)                                            *)
(***************************************************************************)

\* A response of the language-model service: the status code (0 when
\* session.post raised instead of returning), whether the body is JSON
\* with choices[0].message.content, the Retry-After header, and the number
\* the body gives after "try again in " (JNone when it gives none).
Response(status, body_ok, retry_after, hint) ==
    [status |-> status, body_ok |-> body_ok,
     retry_after |-> retry_after, hint |-> hint]

Attempts == 3       \* for attempt in range(3)

\* float(<digits and dots>), in tenths; [ok |-> FALSE] is the ValueError.
\* Digits after the first decimal are dropped.
FloatOfStr(t) ==
    LET dots  == { i \in 1..Len(t) : t[i] = "." }
        dot   == IF dots = { } THEN Len(t) + 1 ELSE CHOOSE i \in dots : TRUE
        whole == SubSeq(t, 1, dot - 1)
        frac  == SubSeq(t, dot + 1, Len(t))
    IN IF Cardinality(dots) <= 1 /\ Len(t) > Cardinality(dots)
       THEN [ok |-> TRUE,
             n  |-> 10 * DigitsValue(whole)
                    + (IF frac = << >> THEN 0 ELSE DigitValue(frac[1]))]
       ELSE [ok |-> FALSE, n |-> 0]

\* wait_s, in tenths of a second: 10 s unless the Retry-After header is an
\* integer or, without a header, the body names a number.
wait_s(r) ==
    IF r.retry_after.k = "str" /\ r.retry_after.s # << >>
    THEN (IF IntOfStr(r.retry_after.s).ok
          THEN 10 * IntOfStr(r.retry_after.s).n ELSE 100)
    ELSE (IF r.hint.k = "str" /\ FloatOfStr(r.hint.s).ok
          THEN FloatOfStr(r.hint.s).n ELSE 100)

\* min(max(wait_s, 5), 20), in tenths of a second.
SleepTime(r) ==
    LET w == wait_s(r)
        m == IF w > 50 THEN w ELSE 50
    IN IF m < 200 THEN m ELSE 200

\* A variant that takes every error status for a rate limit.
IsRateLimit_AnyError(status) == status >= 400

\* if r.status_code == 429
IsRateLimit(status) == status = 429

\* engine.chat(messages) is entered.
chat_begin ==
    /\ engine.pc \in { "idle", "returned", "raised" }
    /\ engine' = [ NoFrame EXCEPT !.pc = "post" ]
    /\ UNCHANGED << ltm_file, hints_file, rag_ok, alive, short_window,
                    use_semantic_rag, turns, long_memory, hints, corpus,
                    call, session >>

\* One pass of the loop up to the sleep: the request is posted and the
\* response r looked at.
chat_post(r) ==
    /\ engine.pc = "post"
    /\ engine' =
         [ engine EXCEPT
             !.sent  = @ + 1,
             !.log   = Append(@, r),
             !.slept = IF r.status # 0 /\ IsRateLimit(r.status)
                       THEN Append(@, SleepTime(r)) ELSE @,
             !.pc    = IF r.status = 0 THEN "raised"
                       ELSE IF IsRateLimit(r.status) THEN "sleep"
                       ELSE IF r.status >= 400 THEN "raised"
                       ELSE IF r.body_ok THEN "returned" ELSE "raised",
             !.error = IF r.status = 0 THEN "transport"
                       ELSE IF IsRateLimit(r.status) THEN "none"
                       ELSE IF r.status >= 400 THEN "http"
                       ELSE IF r.body_ok THEN "none" ELSE "body" ]
    /\ UNCHANGED << ltm_file, hints_file, rag_ok, alive, short_window,
                    use_semantic_rag, turns, long_memory, hints, corpus,
                    call, session >>

\* time.sleep returns and `continue` takes the next value of range(3), or
\* the loop is over and the rate-limit error is raised.
chat_wake ==
    /\ engine.pc = "sleep"
    /\ engine' =
         [ engine EXCEPT
             !.attempt = @ + 1,
             !.pc      = IF engine.attempt + 1 < Attempts
                         THEN "post" ELSE "raised",
             !.error   = IF engine.attempt + 1 < Attempts
                         THEN "none" ELSE "rate_limit" ]
    /\ UNCHANGED << ltm_file, hints_file, rag_ok, alive, short_window,
                    use_semantic_rag, turns, long_memory, hints, corpus,
                    call, session >>

(***************************************************************************)
(* Bounds and inputs                                                       *)
(***************************************************************************)

MaxStore     == 3   \* notes are appended while the store is shorter
MaxNotesArg  == 2   \* compact_long_memory(max_notes) for max_notes in 0..
MaxTurnNo    == 2   \* turn numbers handed to extract_key_events
MaxTurns     == 3   \* turns are added while the history is shorter
MaxWindow    == 3   \* short_window in 0..MaxWindow
MaxFileRecs  == 2   \* records of a hand-edited notes file
MaxTextFrags == 3   \* fragments of a text to score
MaxReplyFrags == 4  \* fragments of a reply to extract from
MaxK         == 2   \* recall_relevant(k, ...) for k in 0..MaxK
MaxCorpus    == 3   \* texts are indexed while the corpus is shorter
MaxLoopTurn  == 4   \* turns are played while the turn counter is smaller
MaxLoopStore == 9   \* and, with resets, while the store is shorter

W_key      == <<"k", "e", "y">>
W_Key      == <<"K", "e", "y">>
W_door     == <<"d", "o", "o", "r">>
W_find     == <<"f", "i", "n", "d">>
W_quest    == <<"q", "u", "e", "s", "t">>
W_ally     == <<"a", "l", "l", "y">>
W_order    == <<"O", "r", "d", "e", "r">>
W_Remember == <<"R", "e", "m", "e", "m", "b", "e", "r", ":">>
SP         == << " " >>
DOT        == << "." >>

\* Every concatenation of at most n fragments.
RECURSIVE Concat(_)
Concat(parts) ==
    IF parts = << >> THEN << >> ELSE Head(parts) \o Concat(Tail(parts))

TextsOf(frags, n) ==
    { Concat(ps) : ps \in UNION { [1..m -> frags] : m \in 0..n } }

\* Texts handed to pin_note.
PinTexts == { << >>, SP, W_key, W_Key \o SP, W_door }

\* Player inputs that begin with remember:.
RememberTexts ==
    { W_Remember \o SP \o W_key, SP \o W_Remember \o SP, RememberLit }

\* Replies of the language model handed to extract_key_events.
StoreReplies == { W_Key \o DOT \o SP \o W_door, W_door, << >> }

\* Hints handed to add_consistency_hint.
HintTexts == { << >>, << "A" >>, << "B" >>, << "C" >>, << "a" >> }

\* What the player and the model say in a turn.
UserTexts == { << "g", "o" >>, << "h", "i" >> }
DmTexts   == { << "o", "k" >>, << "n", "o", "\n", "w" >> }

\* Cues and focus lists handed to recall_relevant.
CueTexts   == { << >>, W_door, <<"t", "h", "e", "\t">> \o W_Key \o SP }
FocusLists == { << >>, << W_ally, <<"D", "o", "o", "r">> >> }

\* Texts to score and replies to extract from, fragment by fragment.
ScoreFrags == { W_quest, W_Key, W_ally, W_order, RememberLit, W_Remember,
                W_door, SP }
ReplyFrags == { W_Key, W_find \o DOT, W_door \o DOT, W_door, SP, NL }

ScoreTexts == TextsOf(ScoreFrags, MaxTextFrags)
ReplyTexts == TextsOf(ReplyFrags, MaxReplyFrags)

\* Values a hand-edited or damaged notes file may hold in a field.
BadPriorities ==
    { JMissing, JNone, JNaN, JList, JBool(TRUE), JInt(0), JInt(3), JInt(9),
      JFloat(27), JFloat(-27), JStr(<< "3" >>), JStr(<< " ", "4", "\n" >>),
      JStr(<< "-", "2" >>), JStr(<< "2", ".", "5" >>), JStr(W_key),
      JStr(<< >>) }
BadTurns ==
    { JMissing, JNone, JInt(-1), JInt(2), JFloat(15), JStr(<< "7" >>),
      JStr(W_key) }
BadNotes ==
    { JMissing, JNone, JStr(W_key), JStr(<< >>), JInt(42), JInt(-7),
      JBool(FALSE), JFloat(-5), JNaN, JList }

GoodRecord == EventRecord(W_key, 1)

\* Records that differ from a well-formed one in one field, and records
\* with every field damaged.
FileRecords ==
    { [GoodRecord EXCEPT !.priority = v] : v \in BadPriorities }
    \cup { [GoodRecord EXCEPT !.turn = v] : v \in BadTurns }
    \cup { [GoodRecord EXCEPT !.note = v] : v \in BadNotes }
    \cup { [GoodRecord EXCEPT !.priority = p, !.turn = t, !.note = n] :
              p \in { JMissing, JStr(<< "3" >>), JFloat(27) },
              t \in { JNone, JStr(<< "7" >>) },
              n \in { JInt(42), JNone } }

FileContents == UNION { [1..m -> FileRecords] : m \in 0..MaxFileRecs }

(***************************************************************************)
(* Specifications                                                          *)
(***************************************************************************)

\* Before the first MemoryManager is constructed, with the notes file and
\* the hints file as given, the embedding backend installed or not.
InitWith(ltm, hf, backends) ==
    /\ ltm_file = ltm
    /\ hints_file = hf
    /\ rag_ok \in backends
    /\ alive = FALSE
    /\ short_window = 0
    /\ use_semantic_rag = FALSE
    /\ turns = << >>
    /\ long_memory = << >>
    /\ hints = << >>
    /\ corpus = << >>
    /\ call = NoCall
    /\ session = NoSession
    /\ engine = NoFrame

\* A first run: no file exists yet.
Init == InitWith(AbsentFile, AbsentFile, BOOLEAN)

\* A first run on a machine without the embedding backend.
InitLight == InitWith(AbsentFile, AbsentFile, { FALSE })

\* Turn numbers handed to the extractor on its own.
ExtractTurns == { 1, 4 }

StoreStep ==
    \/ \E note \in PinTexts :
          Len(long_memory) < MaxStore /\ pin_note(note)
    \/ \E text \in RememberTexts :
          Len(long_memory) < MaxStore /\ remember_command(text)
    \/ \E reply \in StoreReplies, turn \in 1..MaxTurnNo :
          Len(long_memory) < MaxStore /\ extract_key_events(reply, turn)
    \/ \E max_notes \in 0..MaxNotesArg : compact_long_memory(max_notes)

HintStep ==
    \/ \E hint \in HintTexts : add_consistency_hint(hint)
    \/ pop_consistency_hints

TurnStep ==
    \/ \E user \in UserTexts, dm \in DmTexts :
          Len(turns) < MaxTurns /\ add_turn(user, dm)
    \/ get_short_context

\* The long-term store of a Lightweight manager, as app.py constructs it.
NextStore == __init__(AppWindow, FALSE) \/ StoreStep
SpecStore == InitLight /\ [][NextStore]_vars

\* The hint queue.
NextHints == __init__(AppWindow, FALSE) \/ HintStep
SpecHints == InitLight /\ [][NextHints]_vars

\* The first run of the script constructs the manager.
Start == ~alive /\ __init__(AppWindow, FALSE)

\* The hint queue of a turn loop that keeps running: the script constructs
\* the manager, and every turn drains.
SpecDrain ==
    SpecHints /\ WF_vars(Start) /\ WF_vars(pop_consistency_hints)

\* The short-term window, for every window size.
NextTurns == (\E window \in 0..MaxWindow : __init__(window, FALSE)) \/ TurnStep
SpecTurns == InitLight /\ [][NextTurns]_vars

\* Construction from a notes file someone else wrote.
InitLoad ==
    \E recs \in FileContents :
        InitWith(IF recs = << >> THEN CorruptFile ELSE _save_json(recs),
                 AbsentFile, { FALSE })
NextLoad == __init__(AppWindow, FALSE)
SpecLoad == InitLoad /\ [][NextLoad]_vars

\* A manager that has been constructed and not used since.
Fresh == call.op = "__init__"

\* The priority scorer, text by text, each on a fresh manager.
NextScore ==
    \/ __init__(AppWindow, FALSE)
    \/ \E text \in ScoreTexts : Fresh /\ score_text(text)
SpecScore == InitLight /\ [][NextScore]_vars

\* The extractor, reply by reply, each on a fresh manager with an empty
\* store.
NextExtract ==
    \/ __init__(AppWindow, FALSE)
    \/ \E reply \in ReplyTexts, turn \in ExtractTurns :
          Fresh /\ long_memory = << >> /\ extract_key_events(reply, turn)
SpecExtract == InitLight /\ [][NextExtract]_vars

\* Replies and turn numbers for the notes below.
NoteEvents == { << W_Key \o DOT, 1 >>, << W_door, 1 >>, << W_door, 4 >> }

\* Notes of three priorities and three turns, one of them blank.
NoteStep ==
    \/ \E note \in { W_key, SP } :
          Len(long_memory) < MaxStore /\ pin_note(note)
    \/ \E ev \in NoteEvents :
          Len(long_memory) < MaxStore /\ extract_key_events(ev[1], ev[2])

\* The store is queried, and queried again in the same way.
Requery(k, cue, npc_focus) ==
    call.op = "recall_relevant" =>
        (call.n = k /\ call.text = cue /\ call.focus = npc_focus)

RecallStep ==
    \/ \E k \in 0..MaxK, cue \in CueTexts, npc_focus \in FocusLists :
          Requery(k, cue, npc_focus) /\ recall_relevant(k, cue, npc_focus)
    \/ recap

\* Retrieval from a Lightweight store.
NextRecall == __init__(AppWindow, FALSE) \/ NoteStep \/ RecallStep
SpecRecall == InitLight /\ [][NextRecall]_vars

\* Notes and hints together, saved and loaded again.
PersistStep ==
    \/ NoteStep
    \/ \E max_notes \in 0..MaxNotesArg : compact_long_memory(max_notes)
    \/ \E hint \in { << >>, << "A" >>, << "B" >> } :
          add_consistency_hint(hint)
    \/ pop_consistency_hints

NextPersist == __init__(AppWindow, FALSE) \/ PersistStep
SpecPersist == InitLight /\ [][NextPersist]_vars

\* A first run on a machine with the embedding backend.
InitSemantic == InitWith(AbsentFile, AbsentFile, { TRUE })

\* Notes are taken, the store is compacted, and the index is searched for
\* at least one text.
SemanticStep ==
    \/ Len(corpus) < MaxCorpus /\ NoteStep
    \/ \E max_notes \in 1..MaxNotesArg : compact_long_memory(max_notes)
    \/ \E k \in 1..MaxK, cue \in CueTexts :
          Requery(k, cue, << >>) /\ recall_relevant(k, cue, << >>)

\* A Semantic manager.
NextSemantic == __init__(AppWindow, TRUE) \/ SemanticStep
SpecSemantic == InitSemantic /\ [][NextSemantic]_vars

\* What the player types and what the model replies in the turn loop.
ResetTexts == { ResetLit, <<" ", "R", "e", "s", "e", "t", "\n">> }
LoopReplies == { W_Key \o DOT \o W_find, <<"A", " ", "d", "i", "e", "d">> }

\* The turn loop of one session, never reset.
NextLoop ==
    \/ \E max_notes \in 1..MaxNotesArg : app_start(max_notes)
    \/ \E dm_reply \in LoopReplies :
          session.turn < 2 * MaxLoopTurn /\ turn_step(<< "g", "o" >>, dm_reply)
SpecLoop == InitLight /\ [][NextLoop]_vars

\* The turn loop with resets.
NextApp ==
    \/ \E max_notes \in 1..MaxNotesArg : app_start(max_notes)
    \/ \E dm_reply \in LoopReplies :
          /\ session.turn < MaxLoopTurn
          /\ Len(long_memory) < MaxLoopStore
          /\ turn_step(<< "g", "o" >>, dm_reply)
    \/ \E user_text \in ResetTexts : reset_command(user_text)
    \/ reset_world
SpecApp == InitLight /\ [][NextApp]_vars

\* What the service may answer.
RetryAfters == { JNone, JStr(<< >>), JStr(<< "3" >>), JStr(<< "1", "2" >>),
                 JStr(<< "3", "0" >>), JStr(<< "-", "4" >>),
                 JStr(<<"s", "o", "o", "n">>) }
BodyHints   == { JNone, JStr(<< "7", ".", "5" >>), JStr(<< "0", ".", "2" >>),
                 JStr(<< "4", "5" >>), JStr(<< "1", ".", "2", ".", "3" >>),
                 JStr(<< "." >>) }
Responses ==
    { Response(200, TRUE, JNone, JNone), Response(200, FALSE, JNone, JNone),
      Response(0, FALSE, JNone, JNone) }
    \cup { Response(st, FALSE, JNone, JNone) : st \in { 400, 401, 500, 503 } }
    \cup { Response(429, FALSE, ra, JNone) : ra \in RetryAfters }
    \cup { Response(429, FALSE, ra, h) :
             ra \in { JNone, JStr(<< >>) }, h \in BodyHints }

\* Calls of DMEngine.chat, one after the other.
NextChat ==
    \/ chat_begin
    \/ \E r \in Responses : chat_post(r)
    \/ chat_wake
SpecChat == InitLight /\ [][NextChat]_vars

\* A request returns or raises within its timeout, and a sleep ends.
SpecChatFair ==
    SpecChat /\ WF_vars(\E r \in Responses : chat_post(r))
             /\ WF_vars(chat_wake)

\* Semantic mode asked for on a machine without the embedding backend.
NextFallback == __init__(AppWindow, TRUE) \/ NoteStep \/ RecallStep
SpecFallback == InitLight /\ [][NextFallback]_vars

Next == __init__(AppWindow, FALSE) \/ StoreStep \/ HintStep \/ TurnStep
Spec == Init /\ [][Next]_vars

(***************************************************************************)
(* Properties of the hint queue                                            *)
(***************************************************************************)

\* C3: the hint queue is FIFO. A pop_consistency_hints call on a queue `old`
\* returns the min(2, Len(old)) oldest hints, rendered in queue order under
\* the header (the empty string when there is none), removes exactly those
\* and leaves the others in their order; and add_consistency_hint puts a
\* new hint behind all the others, so queue order is the order of adding.
C3_HintFifo ==
    /\ call.op = "pop_consistency_hints" =>
         LET old == call.hints
             m   == Min(2, Len(old))
         IN /\ call.ret =
                 CASE m = 0 -> << >>
                   [] m = 1 -> HintsHeader \o BulletLit \o old[1]
                   [] m = 2 -> HintsHeader \o BulletLit \o old[1] \o NL
                                           \o BulletLit \o old[2]
            /\ Len(hints) = Len(old) - m
            /\ \A i \in 1..Len(hints) : hints[i] = old[i + m]
    /\ call.op = "add_consistency_hint" =>
         \/ hints = call.hints
         \/ hints = call.hints \o << call.text >>

\* C3's case: the queue A, B, C was drained once, which returned A then B
\* and left C.
C3_Witness ==
    /\ call.op = "pop_consistency_hints"
    /\ call.hints = << << "A" >>, << "B" >>, << "C" >> >>
    /\ call.ret = HintsHeader \o BulletLit \o << "A" >> \o NL
                              \o BulletLit \o << "B" >>
    /\ hints = << << "C" >> >>

\* C4: from an empty queue, the queue never holds a hint string twice, and
\* add_consistency_hint of a string already queued leaves the queue as it
\* was.
C4_NoDuplicateHints ==
    /\ \A i, j \in 1..Len(hints) : hints[i] = hints[j] => i = j
    /\ (call.op = "add_consistency_hint" /\ InSeq(call.text, call.hints)) =>
         hints = call.hints

\* C4's case: a hint already in a queue of two or more was added again.
C4_Witness ==
    /\ call.op = "add_consistency_hint"
    /\ InSeq(call.text, call.hints)
    /\ Len(hints) >= 2

\* C14: draining is a destructive read. Every drain of a queue of n hints
\* leaves max(0, n - 2) of them, so ceil(n/2) drains empty it; and if from
\* some point on no hint is added, then the drains that follow eventually
\* return the empty string and the queue is empty from then on.
C14_DrainEmpties ==
    /\ [](call.op = "pop_consistency_hints" =>
            Len(hints) = (IF Len(call.hints) > 2
                          THEN Len(call.hints) - 2 ELSE 0))
    /\ <>[](call.op # "add_consistency_hint") =>
          /\ <>(call.op = "pop_consistency_hints" /\ call.ret = << >>)
          /\ <>[](hints = << >>)

\* C14's case: a queue that held hints has been drained, and a further
\* drain returned the empty string.
C14_Witness ==
    /\ call.op = "pop_consistency_hints"
    /\ call.ret = << >>
    /\ hints = << >>
    /\ hints_file = _save_json(<< >>)

(***************************************************************************)
(* Properties of the short-term window                                     *)
(***************************************************************************)

\* The last m of the turns, oldest first.
LastTurns(ts, m) == [i \in 1..m |-> ts[Len(ts) - m + i]]

\* C2: with N turns and window size W, get_short_context renders exactly
\* the last min(N, W) turns as Player/DM pairs, oldest first, and returns
\* the empty string when there are no turns.
C2_WindowBound ==
    call.op = "get_short_context" =>
        LET m == Min(Len(turns), short_window)
        IN /\ call.ret = Join(NL, ContextLines(LastTurns(turns, m)))
           /\ turns = << >> => call.ret = << >>

\* C2 for window sizes of at least one.
C2_WindowBoundPositive == short_window >= 1 => C2_WindowBound

\* C2's case: more turns than a window of at least one holds.
C2_Witness ==
    /\ call.op = "get_short_context"
    /\ short_window >= 1
    /\ Len(turns) > short_window
    /\ call.ret # << >>

(***************************************************************************)
(* Properties of the long-term store                                       *)
(***************************************************************************)

\* xs is ys with some elements left out.
RECURSIVE IsSubSeq(_, _)
IsSubSeq(xs, ys) ==
    IF xs = << >> THEN TRUE
    ELSE IF ys = << >> THEN FALSE
    ELSE IF Head(xs) = Head(ys) THEN IsSubSeq(Tail(xs), Tail(ys))
    ELSE IsSubSeq(xs, Tail(ys))

\* The note text of a record, trimmed and lower-cased.
TextKey(rec) == Lower(Strip(NoteOrEmpty(rec)))

\* No two records of the store share a trimmed, lower-cased text.
DistinctTexts(recs) ==
    \A i, j \in 1..Len(recs) : TextKey(recs[i]) = TextKey(recs[j]) => i = j

\* C1: after compact_long_memory(M), for every M, the store holds at most M
\* records, no two of them with the same trimmed, lower-cased text, in the
\* order they had before the call.
C1_CompactionCap ==
    call.op = "compact_long_memory" =>
        /\ Len(long_memory) <= call.n
        /\ DistinctTexts(long_memory)
        /\ IsSubSeq(long_memory, call.long_memory)

\* C1 for caps of at least one.
C1_CompactionCapPositive == call.n >= 1 => C1_CompactionCap

\* C1's case: a compaction that dropped a duplicate and a record over the
\* cap.
C1_Witness ==
    /\ call.op = "compact_long_memory"
    /\ call.n >= 1
    /\ ~DistinctTexts(call.long_memory)
    /\ Len(call.long_memory) = MaxStore
    /\ Len(long_memory) = 1

\* C5: pin_note of a text that is empty once trimmed leaves the store, the
\* notes file and the semantic index as they were.
C5_BlankPinIsNoOp ==
    [][ (call'.op = "pin_note" /\ Strip(call'.text) = << >>) =>
            UNCHANGED << long_memory, ltm_file, corpus >> ]_vars

\* The remember: command never pins a note that is empty once trimmed.
C5_CommandSkipsBlank ==
    [][ (call'.op = "remember_command"
            /\ Strip(AfterColon(InputText(call'.text))) = << >>) =>
            UNCHANGED << long_memory, ltm_file, corpus >> ]_vars

\* The positions of the last record of each non-blank text.
LastOfText(recs) ==
    { i \in 1..Len(recs) :
        /\ TextKey(recs[i]) # << >>
        /\ \A j \in (i + 1)..Len(recs) : TextKey(recs[j]) # TextKey(recs[i]) }

\* The m greatest elements of a set of positions.
Greatest(S, m) == { i \in S : Cardinality({ j \in S : j > i }) < m }

\* C9: compact_long_memory(M) keeps of each distinct text its most recent
\* record only, and the texts kept are the M most recent distinct texts:
\* the store becomes the records at the M last positions among the last
\* positions of each text, in order.
C9_KeepsMostRecent ==
    call.op = "compact_long_memory" =>
        LET old  == call.long_memory
            keep == Greatest(LastOfText(old), call.n)
        IN /\ Len(long_memory) = Cardinality(keep)
           /\ IsSubSeq(long_memory, old)
           /\ \A i \in keep : InSeq(old[i], long_memory)

\* C9 for caps of at least one.
C9_KeepsMostRecentPositive == call.n >= 1 => C9_KeepsMostRecent

\* C9's example: two records of one text at different turns, M = 1, and the
\* later one alone remains.
C9_Witness ==
    /\ call.op = "compact_long_memory"
    /\ call.n = 1
    /\ Len(call.long_memory) = 2
    /\ TextKey(call.long_memory[1]) = TextKey(call.long_memory[2])
    /\ call.long_memory[1].turn # call.long_memory[2].turn
    /\ long_memory = << call.long_memory[2] >>

(***************************************************************************)
(* Properties of loading and normalization                                 *)
(***************************************************************************)

\* A value int() raises on, in a field that is not an int already.
Uncoercible(v) == ~IsInstanceInt(Get(v)) /\ ~PyInt(Get(v)).ok

\* C6: in every state of a constructed manager, whatever list of records
\* the notes file held, every record of the store has an integer priority
\* in 1..5, an integer turn and a string note; and a priority or turn that
\* no integer can be made of has become 1 or 0.
C6_RecordsWellTyped ==
    alive =>
        /\ \A i \in 1..Len(long_memory) :
              /\ long_memory[i].priority.k = "int"
              /\ long_memory[i].priority.n \in 1..5
              /\ long_memory[i].turn.k = "int"
              /\ long_memory[i].note.k = "str"
        /\ call.op = "__init__" =>
              \A i \in 1..Len(long_memory) :
                 /\ Uncoercible(call.long_memory[i].priority) =>
                       long_memory[i].priority = JInt(1)
                 /\ Uncoercible(call.long_memory[i].turn) =>
                       long_memory[i].turn = JInt(0)

\* What loading does establish: priority and turn are Python ints (bool
\* included), a note is a string unless it was null or absent, and what
\* int() raises on has become the default.
C6_TypesAfterLoad ==
    alive =>
        /\ \A i \in 1..Len(long_memory) :
              /\ IsInstanceInt(long_memory[i].priority)
              /\ IsInstanceInt(long_memory[i].turn)
              /\ long_memory[i].note.k \in { "str", "none", "missing" }
        /\ call.op = "__init__" =>
              \A i \in 1..Len(long_memory) :
                 /\ Uncoercible(call.long_memory[i].priority) =>
                       long_memory[i].priority = JInt(1)
                 /\ Uncoercible(call.long_memory[i].turn) =>
                       long_memory[i].turn = JInt(0)

\* C7: normalization is idempotent. The store a constructor leaves is
\* normalize(R) for the list R it loaded, and normalizing it again changes
\* no record and reports no change.
C7_NormalizeIdempotent ==
    call.op = "__init__" =>
        LET once  == _normalize_records(call.long_memory)
            twice == _normalize_records(once.recs)
        IN /\ long_memory = once.recs
           /\ twice.recs = once.recs
           /\ ~twice.changed

\* C7's case: a list of two records, both of which the first pass changed.
C7_Witness ==
    /\ call.op = "__init__"
    /\ Len(call.long_memory) = 2
    /\ \A i \in 1..2 : long_memory[i] # call.long_memory[i]
    /\ ltm_file = _save_json(long_memory)

(***************************************************************************)
(* Properties of the priority scorer and of the extractor                  *)
(***************************************************************************)

\* The categories of KEY_TAGS with a keyword in the lower-cased text.
Categories(text) ==
    { c \in 1..Len(KEY_TAGS) :
        \E i \in 1..Len(KEY_TAGS[c]) : Contains(Lower(text), KEY_TAGS[c][i]) }

\* 1 + 2 for each category + 3 for "remember:", before the cap.
RawScore(text) ==
    1 + 2 * Cardinality(Categories(text))
      + (IF Contains(Lower(text), RememberLit) THEN 3 ELSE 0)

\* C8: the score of every text is min(5, 1 + 2 * (categories with a keyword
\* in the lower-cased text) + 3 if it holds "remember:"), and so lies in
\* 1..5.
C8_PriorityScore ==
    call.op = "_priority" =>
        /\ call.out = (IF RawScore(call.text) > 5 THEN 5
                       ELSE RawScore(call.text))
        /\ call.out \in 1..5

\* C8's case: a text of two categories and "remember:" in capitals, whose
\* sum of 8 was capped to 5.
C8_Witness ==
    /\ call.op = "_priority"
    /\ Cardinality(Categories(call.text)) = 2
    /\ Contains(call.text, W_Remember)
    /\ call.out = 5

\* The positions of the sentences that hold an action keyword.
Matching(lines) == { i \in 1..Len(lines) : HasActionKeyword(lines[i]) }

\* The sentences the claim has extract_key_events take: the first two that
\* match, or else the first sentence, or else none.
Expected(lines) ==
    LET M == Matching(lines)
        first == { i \in M : Cardinality({ j \in M : j < i }) < 2 }
    IN IF M = { } THEN SliceTo(lines, 1)
       ELSE IF Cardinality(first) = 1
            THEN << lines[CHOOSE i \in first : TRUE] >>
            ELSE << lines[CHOOSE i \in first : \E j \in first : i < j],
                    lines[CHOOSE i \in first : \E j \in first : j < i] >>

\* C10: extract_key_events(reply, turn) appends at most 2 records: the
\* first two non-blank sentences with an action keyword, in reply order,
\* or the first non-blank sentence if none matches, or nothing if there is
\* none; each with tags [], the given turn and the score of its sentence.
C10_ExtractKeyEvents ==
    call.op = "extract_key_events" =>
        LET old   == call.long_memory
            want  == Expected(SentenceLines(call.text))
            added == Len(long_memory) - Len(old)
        IN /\ added = Len(want)
           /\ added <= 2
           /\ SubSeq(long_memory, 1, Len(old)) = old
           /\ \A i \in 1..added :
                 LET rec == long_memory[Len(old) + i]
                 IN /\ rec.note = JStr(want[i])
                    /\ rec.tags = << >>
                    /\ rec.turn = JInt(call.n)
                    /\ rec.priority.k = "int"
                    /\ rec.priority.n =
                          (IF RawScore(want[i]) > 5 THEN 5
                           ELSE RawScore(want[i]))

\* C10's case: a reply whose first sentence does not match and that has
\* three that do; the first two of those were appended.
C10_Witness ==
    /\ call.op = "extract_key_events"
    /\ Cardinality(Matching(SentenceLines(call.text))) >= 3
    /\ 1 \notin Matching(SentenceLines(call.text))
    /\ Len(long_memory) = Len(call.long_memory) + 2

\* C10's other case: no sentence matches and the first one was appended.
C10_Fallback ==
    /\ call.op = "extract_key_events"
    /\ Matching(SentenceLines(call.text)) = { }
    /\ Len(SentenceLines(call.text)) >= 2
    /\ Len(long_memory) = Len(call.long_memory) + 1

(***************************************************************************)
(* Properties of retrieval                                                 *)
(***************************************************************************)

\* The positions of the pool: the last 200 records with a non-blank text.
PoolPositions(recs) ==
    { i \in 1..Len(recs) :
        i > Len(recs) - 200 /\ Strip(NoteOrEmpty(recs[i])) # << >> }

\* t[a..b] is a whitespace-separated token of t: a maximal run of
\* characters that are not whitespace.
IsToken(t, a, b) ==
    /\ a <= b
    /\ \A i \in a..b : t[i] \notin Whitespace
    /\ a = 1 \/ t[a - 1] \in Whitespace
    /\ b = Len(t) \/ t[b + 1] \in Whitespace

\* Some token of the cue is a case-insensitive substring of the note.
CueHits(cue, note) ==
    \E a, b \in 1..Len(cue) :
        IsToken(cue, a, b) /\ Contains(Lower(note), Lower(SubSeq(cue, a, b)))

\* Some focus token is a case-insensitive substring of the note.
FocusHits(npc_focus, note) ==
    \E j \in 1..Len(npc_focus) : Contains(Lower(note), Lower(npc_focus[j]))

\* The primary score of a record of the store.
Primary(rec, cue, npc_focus) ==
    rec.priority.n
    + (IF FocusHits(npc_focus, rec.note.s) THEN 1 ELSE 0)
    + (IF CueHits(cue, rec.note.s) THEN 1 ELSE 0)

\* x ranks strictly before y.
RanksBefore(x, y, cue, npc_focus) ==
    \/ Primary(x, cue, npc_focus) > Primary(y, cue, npc_focus)
    \/ /\ Primary(x, cue, npc_focus) = Primary(y, cue, npc_focus)
       /\ x.turn.n > y.turn.n

\* The result of a Lightweight recall_relevant(k, cue, focus) on a store.
C11_Ranking ==
    (call.op = "recall_relevant" /\ ~use_semantic_rag) =>
        LET recs == call.long_memory
            P    == PoolPositions(recs)
            m    == Min(call.n, Cardinality(P))
        IN \E ord \in [1..m -> P] :
             /\ \A a, b \in 1..m : ord[a] = ord[b] => a = b
             /\ call.ret =
                   RenderBullets(RelevantHeader,
                                 [a \in 1..m |-> recs[ord[a]].note.s])
             /\ \A a, b \in 1..m :
                   a < b => ~RanksBefore(recs[ord[b]], recs[ord[a]],
                                         call.text, call.focus)
             /\ \A p \in P : \A a \in 1..m :
                   (\A b \in 1..m : ord[b] # p) =>
                       ~RanksBefore(recs[p], recs[ord[a]],
                                    call.text, call.focus)

\* A recall_relevant call changes nothing but its result, and a repeated
\* call with the same arguments on the same store returns the same result.
C11_Pure ==
    call'.op = "recall_relevant" =>
        /\ UNCHANGED << ltm_file, hints_file, long_memory, hints, turns,
                        corpus, short_window, use_semantic_rag >>
        /\ ( /\ call.op = "recall_relevant"
             /\ call'.text = call.text
             /\ call'.n = call.n
             /\ call'.focus = call.focus
             /\ call'.long_memory = call.long_memory ) =>
               call'.ret = call.ret

\* C11: in Lightweight mode recall_relevant(k, cue, npc_focus) lists
\* min(k, size of the pool) notes of the pool (the last 200 records with a
\* non-blank text), in descending order of primary score (priority, +1 if
\* a focus token is a case-insensitive substring of the note, +1 if a
\* whitespace-split cue token is), equal primary scores by higher turn
\* first, and no note left out ranks before a listed one; the call changes
\* no state and a repeated call returns the same list.
C11_LightweightRanking == []C11_Ranking /\ [][C11_Pure]_vars

\* C11's case: of three records the pinned one leads, and of two with the
\* same primary score the one of the later turn, stored after the other,
\* is listed and the other is cut by k = 2.
C11_Witness ==
    /\ call.op = "recall_relevant"
    /\ call.n = 2
    /\ call.long_memory = << EventRecord(W_Key, 1), EventRecord(W_door, 4),
                             PinRecord(W_key) >>
    /\ call.ret = RelevantHeader \o NL \o BulletLit \o W_key
                                 \o NL \o BulletLit \o W_door

\* Right after pin_note(t), t not empty: the last record of the store.
C15_LastRecord ==
    (call.op = "pin_note" /\ call.text # << >>) =>
        /\ long_memory # << >>
        /\ long_memory[Len(long_memory)] =
              [note |-> JStr(call.text), tags |-> << "HIGH" >>,
               priority |-> JInt(5), turn |-> JInt(-1)]
        /\ Contains(Recap(long_memory), call.text)

\* A recap() that follows pin_note(t) at once returns a text that holds t.
C15_RecapNext ==
    (call.op = "pin_note" /\ call.text # << >> /\ call'.op = "recap") =>
        Contains(call'.ret, BulletLit \o call.text)

\* C15: immediately after pin_note(t) with a non-empty t, the last record
\* of the store is {note: t, tags: ["HIGH"], priority: 5, turn: -1}, and
\* recap() returns a text that contains t.
C15_PinThenRecap == []C15_LastRecord /\ [][C15_RecapNext]_vars

\* C15's case: "key" was pinned onto a store of two notes.
C15_Witness ==
    /\ call.op = "pin_note"
    /\ call.text = W_key
    /\ Len(call.long_memory) = 2
    /\ Len(long_memory) = 3

(***************************************************************************)
(* Frame properties of the long-term store                                 *)
(***************************************************************************)

\* xs is the beginning of ys.
IsPrefix(xs, ys) == Len(xs) <= Len(ys) /\ SubSeq(ys, 1, Len(xs)) = xs

\* C12: the store of a constructed manager is append-only except for
\* compaction. A call other than compact_long_memory (and other than a new
\* construction) leaves the records stored before it as an unchanged
\* prefix of the store; compact_long_memory leaves a subsequence of the
\* store: it removes records and alters no field of a record it keeps.
C12_AppendOnly ==
    [][ alive =>
          IF call'.op = "compact_long_memory"
          THEN IsSubSeq(long_memory', long_memory)
          ELSE call'.op # "__init__" => IsPrefix(long_memory, long_memory')
      ]_vars

\* C12's case: a compaction removed a record and kept, as it was, one
\* whose text has a trailing blank.
C12_Witness ==
    /\ call.op = "compact_long_memory"
    /\ Len(long_memory) < Len(call.long_memory)
    /\ \E i \in 1..Len(long_memory) :
          long_memory[i].note = JStr(W_Key \o SP)

\* C12's other case: a note was appended to a store of two.
C12_Appended ==
    /\ call.op \in { "pin_note", "extract_key_events" }
    /\ Len(call.long_memory) = 2
    /\ Len(long_memory) = 3

(***************************************************************************)
(* Persistence                                                             *)
(***************************************************************************)

\* C16: persisted state tracks in-memory state. For a manager constructed
\* from absent files or from files the program saved, after every call of
\* add_consistency_hint, pop_consistency_hints, pin_note,
\* extract_key_events and compact_long_memory (and after construction),
\* what the hints file holds is the hint queue and what the notes file
\* holds is the long-term store; a file not written yet stands for the
\* empty list.
C16_PersistedTracksMemory ==
    alive =>
        /\ _load_json(hints_file, << >>) = hints
        /\ _load_json(ltm_file, << >>) = long_memory
        /\ hints # << >> => hints_file.st = "ok"
        /\ long_memory # << >> => ltm_file.st = "ok"

\* C16's case: with a hint queued and saved, a compaction removed a record
\* and the notes file holds what is left.
C16_Witness ==
    /\ call.op = "compact_long_memory"
    /\ Len(long_memory) < Len(call.long_memory)
    /\ long_memory # << >>
    /\ ltm_file = [st |-> "ok", data |-> long_memory]
    /\ hints # << >>
    /\ hints_file = [st |-> "ok", data |-> hints]

(***************************************************************************)
(* Properties of the two retrieval modes                                   *)
(***************************************************************************)

\* C13: a manager constructed with use_semantic_rag = True while the
\* embedding backend is missing (_USE_RAG_OK is False) is constructed all
\* the same and is a Lightweight one for its whole life: the mode flag is
\* off, no corpus is ever built, by the constructor, by pin_note or by
\* extract_key_events, and recall_relevant returns the Lightweight ranking
\* of the store.
C13_FallbackToLightweight ==
    (alive /\ ~rag_ok) =>
        /\ ~use_semantic_rag
        /\ corpus = << >>
        /\ call.op = "recall_relevant" =>
              LET ranked == Ranked(call.long_memory, call.n, call.text,
                                   call.focus)
              IN  call.ret =
                      RenderBullets(RelevantHeader,
                                    [i \in 1..Len(ranked) |-> ranked[i].note.s])

\* C13's case: without the backend, a manager asked to be semantic holds
\* three notes, none of them indexed, and answered a recall from the store.
C13_Witness ==
    /\ alive /\ ~rag_ok
    /\ call.op = "recall_relevant"
    /\ Len(long_memory) = 3
    /\ call.ret # << >>
    /\ corpus = << >>

\* C17: in Semantic mode the corpus of a manager is only ever appended
\* to. Every call after construction leaves the corpus it found as a
\* prefix of the corpus, and compact_long_memory leaves the corpus as it
\* is, whatever it removes from the store.
C17_CorpusAppendOnly ==
    [][ (alive /\ use_semantic_rag /\ call'.op # "__init__") =>
          /\ IsPrefix(corpus, corpus')
          /\ call'.op = "compact_long_memory" => corpus' = corpus
      ]_vars

\* A text of the corpus that no record of the store holds.
Stale(text) ==
    \A i \in 1..Len(long_memory) :
        ~Contains(NoteOrEmpty(long_memory[i]), text)

\* C17's case: after a compaction, a Semantic recall_relevant for as many
\* texts as the corpus has returned a text that no record of the store
\* holds any more.
C17_Witness ==
    /\ use_semantic_rag
    /\ call.op = "recall_relevant"
    /\ call.n >= Len(corpus)
    /\ \E j \in 1..Len(corpus) :
          /\ Stale(corpus[j])
          /\ Contains(call.ret, BulletLit \o corpus[j])

(***************************************************************************)
(* Properties of the language-model call                                   *)
(***************************************************************************)

\* The status codes received so far by the call in progress.
Statuses == [i \in 1..Len(engine.log) |-> engine.log[i].status]

\* The bounded retry policy, in every state of a call.
C18_Policy ==
    LET n    == Len(engine.log)
        last == engine.log[n]
    IN /\ engine.sent = n /\ n <= 3
       \* a request was sent after another one only if that one got a 429
       /\ \A i \in 1..(n - 1) : Statuses[i] = 429
       \* every sleep lasts between 5 and 20 seconds
       /\ \A i \in 1..Len(engine.slept) :
             engine.slept[i] >= 50 /\ engine.slept[i] <= 200
       \* any other error status raises at once
       /\ (n >= 1 /\ last.status >= 400 /\ last.status # 429) =>
             (engine.pc = "raised" /\ engine.error = "http")
       \* the first successful response is returned
       /\ (n >= 1 /\ last.status \in 1..399 /\ last.body_ok) =>
             engine.pc = "returned"
       /\ engine.pc = "returned" =>
             (n >= 1 /\ last.status \in 1..399 /\ last.body_ok)
       \* three 429 in a row end in the rate-limit error, and nothing else
       \* does
       /\ (n = 3 /\ last.status = 429 /\ engine.pc # "sleep") =>
             (engine.pc = "raised" /\ engine.error = "rate_limit")
       /\ engine.error = "rate_limit" =>
             (engine.pc = "raised" /\ n = 3 /\ \A i \in 1..3 : Statuses[i] = 429)
       \* a call that is over sends nothing
       /\ engine.pc \in { "returned", "raised" } => ~ENABLED (\E r \in Responses : chat_post(r))

\* C18: chat sends at most 3 requests, another one only after a 429; any
\* other status >= 400 raises at once; the first successful response is
\* returned; three 429 in a row end in the rate-limit error; and every
\* call that was entered returns or raises.
C18_BoundedRetry ==
    /\ []C18_Policy
    /\ (engine.pc \in { "post", "sleep" }) ~>
          (engine.pc \in { "returned", "raised" })

\* C18's case: two rate-limit responses, each slept on, then a response
\* that was returned.
C18_Witness ==
    /\ engine.pc = "returned"
    /\ Statuses = << 429, 429, 200 >>
    /\ Len(engine.slept) = 2

\* C18's other case: three rate-limit responses and the rate-limit error.
C18_Exhausted ==
    /\ engine.pc = "raised"
    /\ engine.error = "rate_limit"
    /\ Statuses = << 429, 429, 429 >>

(***************************************************************************)
(* Properties of the script                                                *)
(***************************************************************************)

\* The session has just been reset, by the command or by the button.
JustReset == session.last \in { "reset", "reset_world" }

\* C19: after the player enters reset (or presses Reset World) the world
\* memory is cleared: the turn counter is 0, the chat and the short-term
\* turns are empty, and no long-term note and no consistency hint is left
\* from before the reset.
C19_ResetClears ==
    JustReset =>
        /\ session.turn = 0
        /\ session.chat = << >>
        /\ turns = << >>
        /\ long_memory = << >>
        /\ hints = << >>

\* What a reset does clear: the turn counter, the chat and the short-term
\* turns; the notes and the hints are those of the files.
C19_SessionCleared ==
    JustReset =>
        /\ session.turn = 0
        /\ session.chat = << >>
        /\ turns = << >>
        /\ long_memory = _load_json(ltm_file, << >>)
        /\ hints = _load_json(hints_file, << >>)

\* C19's case: a reset after a turn that stored notes and queued a hint.
C19_Witness ==
    /\ JustReset
    /\ long_memory # << >>
    /\ hints # << >>

\* C20: in the turn loop, from an empty store, with MAX_NOTES = M >= 1 and
\* no pins, after every turn whose number is a multiple of 4 the store
\* holds at most M records, and at every point (at the end of a handler
\* and, within a turn, between extraction and compaction) it holds at most
\* M + 8 records.
C20_LoopBound ==
    session.last # "none" =>
        /\ Len(long_memory) <= session.max_notes + 8
        /\ call.op = "turn" => call.out <= session.max_notes + 8
        /\ (session.last = "turn" /\ session.turn % 4 = 0) =>
              Len(long_memory) <= session.max_notes

\* The part of C20 that resets leave standing: the cap after every 4th
\* turn.
C20_CapEveryFourth ==
    (session.last = "turn" /\ session.turn % 4 = 0) =>
        Len(long_memory) <= session.max_notes

\* C20's case: turn 8 of a session, compacted at turn 4 and again now,
\* with M + 8 records in the store before the compaction.
C20_Witness ==
    /\ session.last = "turn"
    /\ session.turn = 8
    /\ call.out = session.max_notes + 8
    /\ Len(long_memory) = session.max_notes

=============================================================================
